---- MODULE Spec2Model ----
(***************************************************************************)
(* A model of the feed generators of vandijks/rss-feeds.  Every generator  *)
(* is the same pipeline, fetch -> parse -> generate -> save, written out   *)
(* again per site.  The model keeps one run of one generator at a time:    *)
(* the listing page is a sequence of cards, the extractor walks the cards  *)
(* one at a time, the renderer adds one feed entry per article and the     *)
(* feed is written to the feed file.  A second, later run of the same      *)
(* generator on the same page follows a completed first run.               *)
(*                                                                         *)
(* Time is counted in days since 2023-01-01 (the epoch of most             *)
(* stable_fallback_date copies); one reading of the clock is one unit      *)
(* later than the one before.                                              *)
(***************************************************************************)
EXTENDS Integers, Sequences, FiniteSets, TLC

\* ------------------------------------------------------------------ bounds

\* Longest listing page, in cards.
MaxCards == 2
\* Hash seeds a Python process may draw: 0..MaxSeed.
MaxSeed == 1

\* ------------------------------------------------------------ generators

Generators ==
    { "windsurf_blog", "hamel", "barrons", "chanderramesh", "anthropic_news",
      "thinkingmachines", "noordhollands", "cursor", "openai_research",
      "blogsurgeai", "anthropic_research", "ollama", "paulgraham",
      "windsurf_changelog" }

\* The generators that drive a headless browser.
SeleniumGenerators ==
    { "anthropic_news", "noordhollands", "openai_research", "anthropic_research" }

\* The generators that fetch every article's own page while parsing.
ArticleFetchers == { "paulgraham", "noordhollands" }

\* The site prefix each generator puts before a relative href.
BaseUrl(g) ==
    CASE g = "windsurf_blog"      -> "https://windsurf.com/blog"
      [] g = "hamel"              -> "https://hamel.dev"
      [] g = "barrons"            -> "https://www.barrons.com"
      [] g = "chanderramesh"      -> "https://chanderramesh.com"
      [] g = "anthropic_news"     -> "https://www.anthropic.com"
      [] g = "thinkingmachines"   -> "https://thinkingmachines.ai"
      [] g = "noordhollands"      -> "https://www.noordhollandsdagblad.nl"
      [] g = "cursor"             -> "https://cursor.com"
      [] g = "openai_research"    -> "https://openai.com"
      [] g = "blogsurgeai"        -> "https://www.surgehq.ai"
      [] g = "anthropic_research" -> "https://www.anthropic.com"
      [] g = "ollama"             -> "https://ollama.com"
      [] g = "paulgraham"         -> "https://paulgraham.com"
      [] OTHER                    -> "https://windsurf.com/changelog#"

\* ------------------------------------------------------------------ cards

\* href attribute (slug, version id) of a card: two site-relative paths, a
\* relative path without a leading slash, and the empty/missing attribute.
Hrefs == { "/p1", "/p2", "p3", "" }
GoodHrefs == { "/p1", "/p2" }

\* Length of the text of the card's title element; 0: no title element.
TitleLens == { 0, 3, 12 }
GoodTitles == { 12 }

\* Text of the card's date element: "none" no element, "bad" a text no
\* format parses, "md" a month and day without a year ("Nov 7"), "d1" and
\* "d2" two full dates in the site's own format ("Nov 7, 2025" and
\* "Nov 12, 2025").
DateTexts == { "none", "bad", "md", "d1", "d2" }
GoodDates == { "d1", "d2" }

Defects(c) ==
    (IF c.href \in GoodHrefs THEN 0 ELSE 1)
    + (IF c.title \in GoodTitles THEN 0 ELSE 1)
    + (IF c.date \in GoodDates THEN 0 ELSE 1)

\* The cards of the model: well-formed ones and ones with a single defect.
Cards ==
    { c \in [href : Hrefs, title : TitleLens, date : DateTexts] : Defects(c) <= 1 }

RECURSIVE SeqsUpTo(_, _)
SeqsUpTo(S, n) ==
    IF n = 0 THEN { <<>> }
    ELSE LET shorter == SeqsUpTo(S, n - 1)
         IN  shorter \cup { Append(s, x) : s \in { t \in shorter : Len(t) = n - 1 }, x \in S }

Pages == SeqsUpTo(Cards, MaxCards)

\* ------------------------------------------------------------------- time

\* datetime(2023, 1, 1) and datetime(2024, 1, 1), in days since 2023-01-01.
Epoch2023 == 0
Epoch2024 == 365
\* "% 730": the fallback dates span about two years of days.
FallbackSpan == 730
\* A later run may be a year after the first.
YearDays == Epoch2024 - Epoch2023
\* Python's None where a date is expected.
NoDate == -1

\* strptime of a full date text in a format of the site: midnight of that day.
FullDate(text) == IF text = "d1" THEN 1041 ELSE 1046

\* The day of the first run, 2025-11-12: the day of the newest card.
Today == FullDate("d2")

\* datetime.now(): the clock reading.
Now(clk) == Today + clk

\* datetime.now().year
CurrentYear(clk) ==
    IF Now(clk) < 1096 THEN 2025 ELSE IF Now(clk) < 1461 THEN 2026 ELSE 2027

\* January 1st of a year, in days since 2023-01-01.
YearStart(y) ==
    CASE y = 2025 -> 731 [] y = 2026 -> 1096 [] OTHER -> 1461


\* ------------------------------------------------------------------- links

\* A link is the string base + sep + path, kept in its three parts.
Link(base, sep, path) == [base |-> base, sep |-> sep, path |-> path]

\* link.startswith("http")
StartsWithHttp(l) == l.base # ""

\* href.startswith("/")
StartsWithSlash(h) == h \in { "/p1", "/p2" }

\* The usual absolute-link rule: base + href for "/..." hrefs, else href.
AbsLink(g, h) ==
    IF StartsWithSlash(h) THEN Link(BaseUrl(g), "", h) ELSE Link("", "", h)

\* ------------------------------------------------------------------- hash

Abs(x) == IF x < 0 THEN -x ELSE x

PathCode(p) ==
    CASE p = "/p1" -> 1 [] p = "/p2" -> 2 [] p = "p3" -> 3 [] OTHER -> 0

\* A number standing for the characters of the identifier string.
StrCode(l) ==
    4 * (4 * PathCode(l.path) + (IF l.sep = "" THEN 0 ELSE 1))
    + (IF l.base = "" THEN 0 ELSE 1)

\* hash(str): Python salts str hashes with a seed drawn when the process
\* starts (PYTHONHASHSEED unset), so the value depends on the process.
PyHash(sd, l) ==
    ((((StrCode(l) + 1) * 1000003 + sd * 7919) * (2 * sd + 1)) % 65536) - 32768

\* stable_fallback_date(identifier), epoch 2023-01-01.
stable_fallback_date(sd, l) == Epoch2023 + (Abs(PyHash(sd, l)) % FallbackSpan)

\* stable_fallback_date(identifier) of barrons and noordhollands: epoch 2024-01-01.
stable_fallback_date_2024(sd, l) == Epoch2024 + (Abs(PyHash(sd, l)) % FallbackSpan)

\* --------------------------------------------------------------- articles

\* An Article record.  src is a ghost field: where the date came from
\* ("parsed", "fallback" the stable fallback date, "now" the clock, "none").
Article(title, link, date, src) ==
    [title |-> title, link |-> link, date |-> date, src |-> src]

NoArticle == Article(0, Link("", "", ""), NoDate, "none")

\* What the extractor does with one card: skip it (continue), emit an
\* Article, or raise out of the extractor.  seen: the links it adds to
\* seen_links; ticks: the clock readings it stores.
Skip(seen) == [kind |-> "skip", art |-> NoArticle, seen |-> seen, ticks |-> 0]
Emit(a, seen, ticks) == [kind |-> "emit", art |-> a, seen |-> seen, ticks |-> ticks]
Raise == [kind |-> "raise", art |-> NoArticle, seen |-> {}, ticks |-> 0]

\* ----------------------------------------------------- windsurf_blog.py

windsurf_blog_parse_blog_posts(c, clk) ==
    IF c.title = 0 THEN Skip({})
    ELSE LET parsed == c.date \in GoodDates
             link == IF c.href # ""
                     THEN Link(BaseUrl("windsurf_blog"), "/", c.href)
                     ELSE Link(BaseUrl("windsurf_blog"), "", "")
         IN  IF parsed
             THEN Emit(Article(c.title, link, FullDate(c.date), "parsed"), {}, 0)
             ELSE Emit(Article(c.title, link, Now(clk), "now"), {}, 1)

\* ------------------------------------------------------------- hamel_blog.py

hamel_parse_blog_page(c, sd) ==
    IF c.date = "none" THEN Skip({})
    ELSE IF c.title = 0 THEN Skip({})
    ELSE IF c.href = "" THEN Skip({})
    ELSE LET full_url == IF StartsWithSlash(c.href)
                         THEN Link(BaseUrl("hamel"), "", c.href)
                         ELSE Link(BaseUrl("hamel"), "/", c.href)
         IN  IF c.date \in GoodDates
             THEN Emit(Article(c.title, full_url, FullDate(c.date), "parsed"), {}, 0)
             ELSE Emit(Article(c.title, full_url, stable_fallback_date(sd, full_url),
                               "fallback"), {}, 0)

\* ---------------------------------------------------------------- barrons.py

barrons_parse_articles(c, seen, clk) ==
    IF c.href = "" THEN Skip({})
    ELSE LET clean_url == AbsLink("barrons", c.href)
         IN  IF clean_url \in seen THEN Skip({})
             ELSE IF c.title < 10 THEN Skip({clean_url})
             ELSE Emit(Article(c.title, clean_url, Now(clk), "now"), {clean_url}, 1)

\* ------------------------------------------------------ chanderramesh_blog.py

\* parse_date: the one format "%B %d, %Y".
chanderramesh_parse_date(text) ==
    IF text \in GoodDates THEN FullDate(text) ELSE NoDate

chanderramesh_parse_writing_page(c, sd) ==
    IF c.href = "" THEN Skip({})
    ELSE LET full_url == AbsLink("chanderramesh", c.href)
             \* len("Untitled") = 8
             title == IF c.title = 0 THEN 8 ELSE c.title
             parsed == IF c.date = "none" THEN NoDate ELSE chanderramesh_parse_date(c.date)
         IN  IF parsed # NoDate
             THEN Emit(Article(title, full_url, parsed, "parsed"), {}, 0)
             ELSE Emit(Article(title, full_url, stable_fallback_date(sd, full_url),
                               "fallback"), {}, 0)

\* ----------------------------------------------------- anthropic_news_blog.py

anthropic_news_extract_title_untitled(c) == IF c.title = 0 THEN 8 ELSE c.title

\* extract_title: the stripped text of the first matching element, or None (0).
anthropic_news_extract_title(c) == c.title

\* extract_date: the first date text a format parses, or None.
anthropic_news_extract_date(c) ==
    IF c.date \in GoodDates THEN FullDate(c.date) ELSE NoDate

anthropic_news_validate_article_lax(a) == StartsWithHttp(a.link)

\* validate_article: title of 5 characters or more, http link, a date.
anthropic_news_validate_article(a) ==
    /\ a.title >= 5
    /\ StartsWithHttp(a.link)
    /\ a.date # NoDate

anthropic_news_parse_news_html(c, seen, sd) ==
    IF c.href = "" THEN Skip({})
    ELSE LET link == AbsLink("anthropic_news", c.href)
             title == anthropic_news_extract_title(c)
             found == anthropic_news_extract_date(c)
             article == IF found # NoDate
                        THEN Article(title, link, found, "parsed")
                        ELSE Article(title, link, stable_fallback_date(sd, link), "fallback")
         IN  IF link \in seen THEN Skip({})
             ELSE IF title = 0 THEN Skip({link})
             ELSE IF anthropic_news_validate_article(article)
                  THEN Emit(article, {link}, 0)
                  ELSE Skip({link})

\* --------------------------------------------------- thinkingmachines_blog.py

\* parse_date: "%b %d" and "%B %d" take the current year; None when no format parses.
thinkingmachines_parse_date(text, clk) ==
    IF text = "none" THEN NoDate
    ELSE IF text = "md" THEN YearStart(CurrentYear(clk)) + 310
    ELSE IF text \in GoodDates THEN FullDate(text)
    ELSE NoDate

thinkingmachines_extract_articles(c, seen, sd, clk) ==
    IF c.href = "" THEN Skip({})
    ELSE LET link == AbsLink("thinkingmachines", c.href)
             parsed == thinkingmachines_parse_date(c.date, clk)
             title == IF c.title = 0 THEN 8 ELSE c.title
         IN  IF link \in seen THEN Skip({})
             ELSE IF parsed # NoDate
             THEN Emit(Article(title, link, parsed, "parsed"), {link}, 0)
             ELSE Emit(Article(title, link, stable_fallback_date(sd, link), "fallback"),
                       {link}, 0)

\* ------------------------------------------- noordhollandsdagblad_alkmaar.py

\* fetch_article_date_with_driver: the date on the article's page, None when
\* the page cannot be loaded or shows no date (every exception is caught).
fetch_article_date_with_driver(c, fetchOk) ==
    IF fetchOk /\ c.date \in GoodDates THEN FullDate(c.date) ELSE NoDate

\* One article element of parse_articles.  The page's data-article-id is
\* taken as empty, so the fallback identifier is the link.  The second loop,
\* over teaser links, finds only anchors the first loop has already put in
\* seen_links on the pages of the model.
noordhollands_parse_articles(c, seen, sd, fetchOk) ==
    IF c.href = "" THEN Skip({})
    ELSE LET link == AbsLink("noordhollands", c.href)
             date == fetch_article_date_with_driver(c, fetchOk)
         IN  IF link \in seen THEN Skip({})
             ELSE IF c.title < 5 THEN Skip({link})
             ELSE IF date # NoDate
             THEN Emit(Article(c.title, link, date, "parsed"), {link}, 0)
             ELSE Emit(Article(c.title, link, stable_fallback_date_2024(sd, link),
                               "fallback"), {link}, 0)

\* --------------------------------------------------------------- cursor_blog.py

\* parse_posts: every card is a post; the date is the <time> attribute or "".
cursor_parse_posts(c) ==
    IF c.href = "" THEN Skip({})
    ELSE LET url == AbsLink("cursor", c.href)
         IN  IF c.date \in GoodDates
             THEN Emit(Article(c.title, url, FullDate(c.date), "parsed"), {}, 0)
             ELSE Emit(Article(c.title, url, NoDate, "none"), {}, 0)

\* ------------------------------------------------------ openai_research_blog.py

openai_parse_openai_news_html(c, sd) ==
    IF c.href = "" THEN Skip({})
    ELSE IF c.title = 0 THEN Skip({})
    ELSE LET link == Link(BaseUrl("openai_research"), "", c.href)
         IN  IF c.date \in GoodDates
             THEN Emit(Article(c.title, link, FullDate(c.date), "parsed"), {}, 0)
             ELSE Emit(Article(c.title, link, stable_fallback_date(sd, link), "fallback"),
                       {}, 0)

\* ------------------------------------------------- blogsurgeai_feed_generator.py

\* One blog item of generate_blogsurgeai_feed.  dateutil's parser fills a
\* missing year with the current one.
blogsurgeai_item(c, sd, clk) ==
    IF c.title = 0 THEN Skip({})
    ELSE IF c.href = "" THEN Skip({})
    ELSE LET link == Link(BaseUrl("blogsurgeai"), "", c.href)
         IN  IF c.date \in GoodDates
             THEN Emit(Article(c.title, link, FullDate(c.date), "parsed"), {}, 0)
             ELSE IF c.date = "md"
             THEN Emit(Article(c.title, link, YearStart(CurrentYear(clk)) + 310, "parsed"),
                       {}, 0)
             ELSE Emit(Article(c.title, link, stable_fallback_date(sd, link), "fallback"),
                       {}, 0)

\* -------------------------------------------------- anthropic_research_blog.py

\* Length of the text of the card's date element.
DateTextLen(text) ==
    CASE text = "none" -> 0 [] text = "bad" -> 3 [] text = "md" -> 5 [] OTHER -> 12

\* extract_title: a heading of at least 5 characters, else the whole text of
\* the card when that has at least 5, else None (0).
anthropic_research_extract_title(c) ==
    IF c.title >= 5 THEN c.title
    ELSE IF c.title + DateTextLen(c.date) >= 5 THEN c.title + DateTextLen(c.date)
    ELSE 0

anthropic_research_extract_date(c) ==
    IF c.date \in GoodDates THEN FullDate(c.date) ELSE NoDate

\* "Date can be None for research articles".
anthropic_research_validate_article(a) ==
    /\ a.title >= 5
    /\ StartsWithHttp(a.link)

anthropic_research_parse_research_html(c, seen) ==
    IF c.href = "" THEN Skip({})
    ELSE IF ~StartsWithSlash(c.href) THEN Skip({})
    ELSE LET full_url == Link(BaseUrl("anthropic_research"), "", c.href)
             title == anthropic_research_extract_title(c)
             date == anthropic_research_extract_date(c)
             article == Article(title, full_url, date,
                                IF date # NoDate THEN "parsed" ELSE "none")
         IN  IF full_url \in seen THEN Skip({})
             ELSE IF title = 0 THEN Skip({full_url})
             ELSE IF anthropic_research_validate_article(article)
                  THEN Emit(article, {full_url}, 0)
                  ELSE Skip({full_url})

\* --------------------------------------------------------------- ollama_blog.py

\* One post of parse_blog_html: no try/except around a post, so a missing
\* h2 or h3 (AttributeError) or an unparsable date (ValueError) leaves the
\* loop and parse_blog_html re-raises.  The selector keeps "/blog/..." hrefs.
ollama_parse_blog_html(c) ==
    IF ~StartsWithSlash(c.href) THEN Skip({})
    ELSE IF c.title = 0 THEN Raise
    ELSE IF c.date \notin GoodDates THEN Raise
    ELSE Emit(Article(c.title, Link(BaseUrl("ollama"), "", c.href), FullDate(c.date),
                      "parsed"), {}, 0)

\* ------------------------------------------------------------ paulgraham_blog.py

\* One essay link of parse_essays_page: the essay's page is fetched inside
\* the loop, outside any try/except; an essay without a date is skipped.
paulgraham_parse_essays_page(c, fetchOk) ==
    IF c.href = "" THEN Skip({})
    ELSE IF ~fetchOk THEN Raise
    ELSE IF c.date \in GoodDates
    THEN Emit(Article(c.title, Link(BaseUrl("paulgraham"), "/", c.href), FullDate(c.date),
                      "parsed"), {}, 0)
    ELSE Skip({})

\* -------------------------------------------------------- windsurf_changelog.py

\* One version element of parse_changelog_html; the elements are those whose
\* id looks like a version.  len("Windsurf 1.2.3") = 14.
windsurf_changelog_parse_changelog_html(c, clk) ==
    IF c.href \notin GoodHrefs THEN Skip({})
    ELSE LET link == Link(BaseUrl("windsurf_changelog"), "", c.href)
         IN  IF c.date \in GoodDates
             THEN Emit(Article(14, link, FullDate(c.date), "parsed"), {}, 0)
             ELSE Emit(Article(14, link, Now(clk), "now"), {}, 1)

\* ------------------------------------------------------------- the extractor

\* The body of the extractor's loop, for one card.
ExtractItem(g, c, seen, sd, clk, fetchOk) ==
    CASE g = "windsurf_blog"      -> windsurf_blog_parse_blog_posts(c, clk)
      [] g = "hamel"              -> hamel_parse_blog_page(c, sd)
      [] g = "barrons"            -> barrons_parse_articles(c, seen, clk)
      [] g = "chanderramesh"      -> chanderramesh_parse_writing_page(c, sd)
      [] g = "anthropic_news"     -> anthropic_news_parse_news_html(c, seen, sd)
      [] g = "thinkingmachines"   -> thinkingmachines_extract_articles(c, seen, sd, clk)
      [] g = "noordhollands"      -> noordhollands_parse_articles(c, seen, sd, fetchOk)
      [] g = "cursor"             -> cursor_parse_posts(c)
      [] g = "openai_research"    -> openai_parse_openai_news_html(c, sd)
      [] g = "blogsurgeai"        -> blogsurgeai_item(c, sd, clk)
      [] g = "anthropic_research" -> anthropic_research_parse_research_html(c, seen)
      [] g = "ollama"             -> ollama_parse_blog_html(c)
      [] g = "paulgraham"         -> paulgraham_parse_essays_page(c, fetchOk)
      [] OTHER                    -> windsurf_changelog_parse_changelog_html(c, clk)

\* ------------------------------------------------------ sorting, rendering

\* sorted(..., reverse=True) by date: stable, newest first.
RECURSIVE SortDesc(_)
SortDesc(s) ==
    IF s = <<>> THEN <<>>
    ELSE LET rest == SortDesc(SubSeq(s, 1, Len(s) - 1))
             x == s[Len(s)]
             k == Cardinality({ i \in DOMAIN rest : rest[i].date >= x.date })
         IN  SubSeq(rest, 1, k) \o <<x>> \o SubSeq(rest, k + 1, Len(rest))

\* sort(reverse=False) by date: stable, oldest first.
RECURSIVE SortAsc(_)
SortAsc(s) ==
    IF s = <<>> THEN <<>>
    ELSE LET rest == SortAsc(SubSeq(s, 1, Len(s) - 1))
             x == s[Len(s)]
             k == Cardinality({ i \in DOMAIN rest : rest[i].date <= x.date })
         IN  SubSeq(rest, 1, k) \o <<x>> \o SubSeq(rest, k + 1, Len(rest))

\* The posts of s whose url no earlier post has.
DedupeByUrl(s) ==
    LET keep == { i \in DOMAIN s : \A j \in 1..(i - 1) : s[j].link # s[i].link }
        F[i \in 0..Len(s)] ==
            IF i = 0 THEN <<>>
            ELSE IF i \in keep THEN Append(F[i - 1], s[i]) ELSE F[i - 1]
    IN  F[Len(s)]

\* What the extractor does to its list after the loop.
PostParse(g, arts) ==
    CASE g = "chanderramesh"    -> SortAsc(arts)
      [] g = "thinkingmachines" -> SortDesc(arts)
      [] g = "cursor"           -> SortDesc(DedupeByUrl(arts))
      [] OTHER                  -> arts

\* anthropic_research: dated articles newest first, then the undated ones.
WithDateFirst(arts) ==
    SortDesc(SelectSeq(arts, LAMBDA a : a.date # NoDate))
    \o SelectSeq(arts, LAMBDA a : a.date = NoDate)

\* The order in which generate_rss_feed adds the articles to the feed.
PreRender(g, arts) ==
    CASE g \in { "windsurf_blog", "anthropic_news", "noordhollands",
                 "windsurf_changelog" } -> SortDesc(arts)
      [] g = "anthropic_research" -> WithDateFirst(arts)
      [] OTHER -> arts

\* fg.add_entry(): feedgen puts the new entry in front of the earlier ones
\* ("feedgen reverses the order").
add_entry(entries, e) == <<e>> \o entries

\* The entries of the feed after one add_entry per article, in order.
RenderEntries(arts) ==
    LET F[i \in 0..Len(arts)] ==
            IF i = 0 THEN <<>> ELSE add_entry(F[i - 1], arts[i])
    IN  F[Len(arts)]

\* ------------------------------------------------------------ entry points

\* main returns False before generating when the extractor found nothing.
HasEmptyCheck(g) ==
    g \in { "windsurf_blog", "barrons", "anthropic_news", "noordhollands",
            "anthropic_research", "windsurf_changelog" }

\* What the caller of the entry point gets when a step raises: "False" from
\* an except branch that returns it, "None" from one that falls off the end
\* of the function, "raised" when nothing catches the exception.
OnException(g, step) ==
    CASE g = "cursor"          -> "raised"
      [] g = "openai_research" -> "None"
      [] g = "blogsurgeai"     -> IF step = "fetch" THEN "None" ELSE "raised"
      [] OTHER                 -> "False"

\* What the caller gets from a run that saved its feed.
OnSuccess(g) ==
    IF g \in { "openai_research", "blogsurgeai" } THEN "None" ELSE "True"

\* The browser session when the fetch function returns the page: its
\* finally quits the driver; noordhollands hands the driver to main instead.
fetch_return(g, b) == IF g = "noordhollands" THEN b ELSE "quit"

\* The browser session when the fetch function raises after the driver was
\* created: finally (or, in noordhollands, the except branch) quits it.
fetch_raise(g, b) == "quit"

main_finally_noquit(g, drv, b) == b

\* main's finally: noordhollands quits the driver fetch_page_content gave it.
main_finally(g, drv, b) == IF g = "noordhollands" /\ drv THEN "quit" ELSE b

\* ------------------------------------------------------------------ state

VARIABLES
    gen,        \* the generator that runs
    page,       \* the listing page (API response): a sequence of cards
    seed,       \* the hash seed of the running process
    clock,      \* clock readings so far
    run,        \* 1: the first run, 2: the later run on the same page
    pc,         \* where main is: start, loading, parse, generate, save, done
    idx,        \* the next card of the extractor's loop
    articles,   \* the extractor's list
    seen_links, \* the extractor's seen_links set
    fg,         \* the entries of the FeedGenerator
    feedFile,   \* the feed file on disk
    result,     \* what main gave its caller
    fault,      \* ghost: the step in which the environment raised
    browser,    \* the headless-browser session: none, open, quit
    driver,     \* noordhollands: main's driver variable is set
    netlog,     \* ghost: the outcome of each per-article fetch of this run
    prev        \* ghost: the first run, kept for the second

pipeVars ==
    << gen, page, seed, clock, run, pc, idx, articles, seen_links, fg, feedFile,
       result, fault, browser, driver, netlog, prev >>

\* A call of a date parser on a date string.
VARIABLES
    pd_pc,      \* idle (no call), ready, done
    pd_parser,  \* the module whose parse_date is called
    pd_text,    \* the date string, as a sequence of tokens
    pd_year,    \* datetime.now().year at the call
    pd_result   \* what parse_date returned

dateVars == << pd_pc, pd_parser, pd_text, pd_year, pd_result >>

\* A call of get_existing_links_from_feed on a feed path.
VARIABLES
    gl_pc,      \* idle (no call), ready, done
    gl_file,    \* the file at the path
    gl_result   \* what the call gave: whether it raised, the set returned

linkVars == << gl_pc, gl_file, gl_result >>

\* The "See more" loop of fetch_news_content.
VARIABLES
    ck_pc,         \* idle (no call), loop, capture, done
    clicks,        \* the counter of the loop
    ck_iterations, \* ghost: passes through the loop body so far
    ck_batches,    \* batches of articles the page has loaded
    ck_html        \* the page source captured: its batches, -1 before

clickVars == << ck_pc, clicks, ck_iterations, ck_batches, ck_html >>

VARIABLES
    cu_pc,          \* where main is: "start", "fetch", "save_cache", "save_feed"
    cu_cache,       \* the cache file: whether it exists, and its posts
    cu_feed,        \* the feed file of the cursor generator
    cu_full_reset,  \* the full-refresh switch of the current run
    cu_next,        \* the Next/Older link of each page, 0 when it has none
    cu_mode,        \* the branch of main: "full" or "incremental"
    cu_url,         \* url of fetch_all_pages, 0 for None
    cu_all_posts,   \* all_posts of fetch_all_pages
    cu_new_posts,   \* new_posts of an incremental run
    cu_posts,       \* posts of main
    cu_fetches,     \* the pages this run has requested, in order
    cu_runs,        \* runs finished so far
    cu_result       \* how the last run ended: "True", "raised", "none"

cursorVars ==
    << cu_pc, cu_cache, cu_feed, cu_full_reset, cu_next, cu_mode, cu_url,
       cu_all_posts, cu_new_posts, cu_posts, cu_fetches, cu_runs, cu_result >>

VARIABLES
    call_pc,    \* the function called on its own, and whether it has returned
    call_arg,   \* its argument
    call_ret    \* what it returned

callVars == << call_pc, call_arg, call_ret >>

vars == << pipeVars, dateVars, linkVars, clickVars, cursorVars, callVars >>

\* The part of the state that the operations of group g leave alone.
Frame(g) ==
    /\ g # "pipe" => UNCHANGED pipeVars
    /\ g # "date" => UNCHANGED dateVars
    /\ g # "link" => UNCHANGED linkVars
    /\ g # "click" => UNCHANGED clickVars
    /\ g # "cursor" => UNCHANGED cursorVars
    /\ g # "call" => UNCHANGED callVars

\* No date parser is being called.
DateIdle ==
    /\ pd_pc = "idle"
    /\ pd_parser = "none"
    /\ pd_text = <<>>
    /\ pd_year = 0
    /\ pd_result = "none"

\* get_existing_links_from_feed is not being called.
LinkIdle ==
    /\ gl_pc = "idle"
    /\ gl_file = [kind |-> "absent", items |-> <<>>]
    /\ gl_result = [raised |-> FALSE, links |-> {}]

\* The "See more" loop is not running.
ClickIdle ==
    /\ ck_pc = "idle"
    /\ clicks = 0
    /\ ck_iterations = 0
    /\ ck_batches = 0
    /\ ck_html = -1

\* The cursor generator is not being run.
CursorIdle ==
    /\ cu_pc = "idle"
    /\ cu_cache = [exists |-> FALSE, posts |-> <<>>]
    /\ cu_feed = [exists |-> FALSE, items |-> <<>>]
    /\ cu_full_reset = FALSE
    /\ cu_next = <<>>
    /\ cu_mode = "none"
    /\ cu_url = 0
    /\ cu_all_posts = <<>>
    /\ cu_new_posts = <<>>
    /\ cu_posts = <<>>
    /\ cu_fetches = <<>>
    /\ cu_runs = 0
    /\ cu_result = "none"

\* No function is being called on its own.
CallIdle ==
    /\ call_pc = "idle"
    /\ call_arg = <<>>
    /\ call_ret = "none"

\* No generator is being run.
PipeIdle ==
    /\ gen = "none"
    /\ page = <<>>
    /\ seed = 0
    /\ clock = 0
    /\ run = 1
    /\ pc = "idle"
    /\ idx = 1
    /\ articles = <<>>
    /\ seen_links = {}
    /\ fg = <<>>
    /\ feedFile = [exists |-> FALSE, items |-> <<>>]
    /\ result = "none"
    /\ fault = "none"
    /\ browser = "none"
    /\ driver = FALSE
    /\ netlog = <<>>
    /\ prev = [articles |-> <<>>, netlog |-> <<>>, seed |-> 0]

\* Nothing runs but the operations of group g.
IdleExcept(g) ==
    /\ g # "pipe" => PipeIdle
    /\ g # "date" => DateIdle
    /\ g # "link" => LinkIdle
    /\ g # "click" => ClickIdle
    /\ g # "cursor" => CursorIdle
    /\ g # "call" => CallIdle

NoPrev == [articles |-> <<>>, netlog |-> <<>>, seed |-> 0]

Init ==
    /\ gen \in Generators
    /\ page \in Pages
    /\ seed \in 0..MaxSeed
    /\ clock = 0
    /\ run = 1
    /\ pc = "start"
    /\ idx = 1
    /\ articles = <<>>
    /\ seen_links = {}
    /\ fg = <<>>
    /\ feedFile = [exists |-> FALSE, items |-> <<>>]
    /\ result = "none"
    /\ fault = "none"
    /\ browser = "none"
    /\ driver = FALSE
    /\ netlog = <<>>
    /\ prev = NoPrev
    /\ IdleExcept("pipe")

\* main is left with result r; its finally runs.
Exit(r) ==
    /\ pc' = "done"
    /\ result' = r
    /\ browser' = main_finally(gen, driver, browser)

\* requests.get returns the page.
FetchPage ==
    /\ pc = "start"
    /\ gen \notin SeleniumGenerators
    /\ pc' = "parse"
    /\ Frame("pipe")
    /\ UNCHANGED << gen, page, seed, clock, run, idx, articles, seen_links, fg,
                    feedFile, result, fault, browser, driver, netlog, prev >>

\* requests.get raises (or the browser cannot be started): no page.
FetchFails ==
    /\ pc = "start"
    /\ run = 1
    /\ fault' = "fetch"
    /\ Exit(OnException(gen, "fetch"))
    /\ Frame("pipe")
    /\ UNCHANGED << gen, page, seed, clock, run, idx, articles, seen_links, fg,
                    feedFile, driver, netlog, prev >>

\* setup_selenium_driver(): a browser session is acquired.
SetupDriver ==
    /\ pc = "start"
    /\ gen \in SeleniumGenerators
    /\ pc' = "loading"
    /\ browser' = "open"
    /\ Frame("pipe")
    /\ UNCHANGED << gen, page, seed, clock, run, idx, articles, seen_links, fg,
                    feedFile, result, fault, driver, netlog, prev >>

\* driver.get, the waits and page_source succeed: the fetch function returns.
LoadPage ==
    /\ pc = "loading"
    /\ pc' = "parse"
    /\ browser' = fetch_return(gen, browser)
    /\ driver' = (gen = "noordhollands")
    /\ Frame("pipe")
    /\ UNCHANGED << gen, page, seed, clock, run, idx, articles, seen_links, fg,
                    feedFile, result, fault, netlog, prev >>

\* driver.get or page_source raises: the fetch function raises, main catches.
LoadFails ==
    /\ pc = "loading"
    /\ run = 1
    /\ fault' = "fetch"
    /\ pc' = "done"
    /\ result' = OnException(gen, "fetch")
    /\ browser' = main_finally(gen, driver, fetch_raise(gen, browser))
    /\ Frame("pipe")
    /\ UNCHANGED << gen, page, seed, clock, run, idx, articles, seen_links, fg,
                    feedFile, driver, netlog, prev >>

\* One pass of the extractor's loop.  The per-article fetch of the second
\* run has the outcome it had in the first: the input is the same.
ParseItem ==
    /\ pc = "parse"
    /\ idx <= Len(page)
    /\ \E fetchOk \in BOOLEAN :
        /\ gen \notin ArticleFetchers => fetchOk
        /\ (run = 2 /\ idx <= Len(prev.netlog)) => fetchOk = prev.netlog[idx]
        /\ LET r == ExtractItem(gen, page[idx], seen_links, seed, clock, fetchOk)
           IN  /\ netlog' = Append(netlog, fetchOk)
               /\ IF r.kind = "raise"
                  THEN /\ Exit(OnException(gen, "parse"))
                       /\ articles' = <<>>
                       /\ UNCHANGED << idx, seen_links, clock >>
                  ELSE /\ idx' = idx + 1
                       /\ articles' = IF r.kind = "emit"
                                      THEN Append(articles, r.art) ELSE articles
                       /\ seen_links' = seen_links \cup r.seen
                       /\ clock' = clock + r.ticks
                       /\ UNCHANGED << pc, result, browser >>
    /\ Frame("pipe")
    /\ UNCHANGED << gen, page, seed, run, fg, feedFile, fault, driver, prev >>

\* The parser raises before its loop (the markup cannot be read at all).
ParseFails ==
    /\ pc = "parse"
    /\ idx = 1
    /\ run = 1
    /\ fault' = "parse"
    /\ Exit(OnException(gen, "parse"))
    /\ Frame("pipe")
    /\ UNCHANGED << gen, page, seed, clock, run, idx, articles, seen_links, fg,
                    feedFile, driver, netlog, prev >>

\* The loop is over: the extractor returns its list, main checks it.
ParseDone ==
    /\ pc = "parse"
    /\ idx > Len(page)
    /\ articles' = PostParse(gen, articles)
    /\ IF HasEmptyCheck(gen) /\ articles = <<>>
       THEN Exit("False")
       ELSE /\ pc' = "generate"
            /\ UNCHANGED << result, browser >>
    /\ Frame("pipe")
    /\ UNCHANGED << gen, page, seed, clock, run, idx, seen_links, fg, feedFile,
                    fault, driver, netlog, prev >>

\* generate_rss_feed: one entry per article.
GenerateFeed ==
    /\ pc = "generate"
    /\ fg' = RenderEntries(PreRender(gen, articles))
    /\ pc' = "save"
    /\ Frame("pipe")
    /\ UNCHANGED << gen, page, seed, clock, run, idx, articles, seen_links,
                    feedFile, result, fault, browser, driver, netlog, prev >>

\* generate_rss_feed raises.
GenerateFails ==
    /\ pc = "generate"
    /\ run = 1
    /\ fault' = "generate"
    /\ Exit(OnException(gen, "generate"))
    /\ Frame("pipe")
    /\ UNCHANGED << gen, page, seed, clock, run, idx, articles, seen_links, fg,
                    feedFile, driver, netlog, prev >>

\* save_rss_feed: the feed file is written; main returns.
SaveFeed ==
    /\ pc = "save"
    /\ feedFile' = [exists |-> TRUE, items |-> fg]
    /\ Exit(OnSuccess(gen))
    /\ Frame("pipe")
    /\ UNCHANGED << gen, page, seed, clock, run, idx, articles, seen_links, fg,
                    fault, driver, netlog, prev >>

\* rss_file raises: before it has opened the file, which stays as it was,
\* or while it writes into the file it has opened and truncated, which is
\* left with the items written so far.
SaveFails ==
    /\ pc = "save"
    /\ run = 1
    /\ fault' = "save"
    /\ \/ UNCHANGED feedFile
       \/ \E k \in {0} \cup 0..(Len(fg) - 1) :
             feedFile' = [exists |-> TRUE, items |-> SubSeq(fg, 1, k)]
    /\ Exit(OnException(gen, "save"))
    /\ Frame("pipe")
    /\ UNCHANGED << gen, page, seed, clock, run, idx, articles, seen_links, fg,
                    driver, netlog, prev >>

\* A later, separate run of the same generator on the same page: a new
\* process (a new hash seed), a later clock (the next reading, or a year on).
Rerun ==
    /\ pc = "done"
    /\ run = 1
    /\ fault = "none"
    /\ result = OnSuccess(gen)
    /\ run' = 2
    /\ prev' = [articles |-> articles, netlog |-> netlog, seed |-> seed]
    /\ seed' \in 0..MaxSeed
    /\ \E dt \in { 1, YearDays } : clock' = clock + dt
    /\ pc' = "start"
    /\ idx' = 1
    /\ articles' = <<>>
    /\ seen_links' = {}
    /\ fg' = <<>>
    /\ result' = "none"
    /\ browser' = "none"
    /\ driver' = FALSE
    /\ netlog' = <<>>
    /\ Frame("pipe")
    /\ UNCHANGED << gen, page, feedFile, fault >>

Next ==
    \/ FetchPage
    \/ FetchFails
    \/ SetupDriver
    \/ LoadPage
    \/ LoadFails
    \/ ParseItem
    \/ ParseFails
    \/ ParseDone
    \/ GenerateFeed
    \/ GenerateFails
    \/ SaveFeed
    \/ SaveFails
    \/ Rerun

Spec == Init /\ [][Next]_vars

\* The generators with a browser: requests.get is never called.
NextBrowser ==
    \/ FetchFails
    \/ SetupDriver
    \/ LoadPage
    \/ LoadFails
    \/ ParseItem
    \/ ParseFails
    \/ ParseDone
    \/ GenerateFeed
    \/ GenerateFails
    \/ SaveFeed
    \/ SaveFails
    \/ Rerun

InitBrowser == Init /\ gen \in SeleniumGenerators

SpecBrowser == InitBrowser /\ [][NextBrowser]_vars

\* The two generators that validate an article before keeping it.
ValidatingGenerators == { "anthropic_news", "anthropic_research" }

InitValidating == Init /\ gen \in ValidatingGenerators

SpecValidating == InitValidating /\ [][NextBrowser]_vars

\* The three extractors of the one-good-one-malformed-card fixture.
ListingGenerators == { "anthropic_news", "chanderramesh", "thinkingmachines" }

InitListing == Init /\ gen \in ListingGenerators

SpecListing == InitListing /\ [][Next]_vars

\* ----------------------------------------------------------------- claims

\* C1: no two items of a written feed have the same link.
C1_UniqueLinks ==
    feedFile.exists =>
        \A i, j \in DOMAIN feedFile.items :
            i # j => feedFile.items[i].link # feedFile.items[j].link

\* C2: the items of a written feed are in non-increasing publish-date
\* order, newest first.
C2_NewestFirst ==
    feedFile.exists =>
        \A i, j \in DOMAIN feedFile.items :
            i < j => feedFile.items[i].date >= feedFile.items[j].date

\* C3: the later run on the same page returns the same ordered list of
\* Article records as the first: same titles, links and dates.
C3_RerunSameArticles ==
    (run = 2 /\ pc = "generate") =>
        /\ Len(articles) = Len(prev.articles)
        /\ \A i \in DOMAIN articles :
            /\ articles[i].title = prev.articles[i].title
            /\ articles[i].link = prev.articles[i].link
            /\ articles[i].date = prev.articles[i].date

\* C4: an item dated by stable_fallback_date in both runs has the same date
\* in both: the fallback date depends on the identifier alone.
C4_FallbackDateStable ==
    (run = 2 /\ pc = "generate") =>
        \A i \in DOMAIN articles, j \in DOMAIN prev.articles :
            ( /\ articles[i].src = "fallback"
              /\ prev.articles[j].src = "fallback"
              /\ articles[i].link = prev.articles[j].link )
            => articles[i].date = prev.articles[j].date

\* C5: when the run has ended, on whatever path, no browser session it
\* acquired is still open.
C5_BrowserQuit == pc = "done" => browser # "open"

\* C5 witness: noordhollands, whose driver outlives the fetch, has ended on
\* a failure to save and the session is quit.
C5_Witness ==
    /\ gen = "noordhollands"
    /\ pc = "done"
    /\ fault = "save"
    /\ browser = "quit"

\* C6: a run in which a step raised has returned False to its caller.
C6_ExceptionReturnsFalse == (pc = "done" /\ fault # "none") => result = "False"

\* The validation the renderer's input has passed in a validating
\* generator: anthropic_research lets an article go without a date.
Validated(g, a) ==
    /\ a.title >= 5
    /\ StartsWithHttp(a.link)
    /\ g = "anthropic_news" => a.date # NoDate

C8_ItemErrorSkipsOnlyThatItem ==
    (pc = "done" /\ run = 1 /\ fault = "none") =>
        \A i \in DOMAIN page :
            Defects(page[i]) = 0 =>
                \E k \in DOMAIN articles : articles[k].link.path = page[i].href

\* C9: when the extractor has returned, every card that is well formed but
\* for its date text (none, or one no format parses) has its Article, dated
\* by stable_fallback_date.
C9_FallbackDateUsed ==
    pc = "generate" =>
        \A i \in DOMAIN page :
            ( /\ page[i].href \in GoodHrefs
              /\ page[i].title \in GoodTitles
              /\ page[i].date \in { "none", "bad" } )
            => \E k \in DOMAIN articles :
                /\ articles[k].link.path = page[i].href
                /\ articles[k].src = "fallback"

\* The listing of C10: the links are pairwise distinct and every card is
\* well formed or lacks only its title.
IsListing(p) ==
    /\ \A i, j \in DOMAIN p : i # j => p[i].href # p[j].href
    /\ \A i \in DOMAIN p : Defects(p[i]) = 0 \/ p[i].title = 0

\* The cards of the page that have (not) a title.
Titled(p) == { i \in DOMAIN p : p[i].title # 0 }
Untitled(p) == { i \in DOMAIN p : p[i].title = 0 }

MaxTokens == 4

\* A date string is a sequence of tokens: a full month name ("B"), an
\* abbreviated one ("b"), "May" which is both ("Bb"), a number of one or
\* two digits ("n"), a number of four digits ("Y"), a comma, a dash, a
\* slash, and white space (" ") before or after the rest.
Tok(k, v) == [k |-> k, v |-> v]

Blank == Tok(" ", 0)

CoreTokens ==
    { Tok("B", 11), Tok("b", 11), Tok("Bb", 5), Tok("n", 12), Tok("n", 13),
      Tok("Y", 2025), Tok(",", 0), Tok("-", 0), Tok("/", 0) }

\* The tokens of a date written in numbers.
NumericTokens == { Tok("n", 12), Tok("n", 13), Tok("Y", 2025), Tok("-", 0), Tok("/", 0) }

\* The strings of as many numeric tokens as "2025-11-12" has.
NumericStrings == [ 1..Len(<< "%Y", "-", "%m", "-", "%d" >>) -> NumericTokens ]

DateStrings ==
    LET cores == SeqsUpTo(CoreTokens, MaxTokens) \cup NumericStrings
    IN  cores \cup { <<Blank>> \o c : c \in cores } \cup { Append(c, Blank) : c \in cores }

\* "November 12, 2025"
November12 == << Tok("B", 11), Tok("n", 12), Tok(",", 0), Tok("Y", 2025) >>

\* The years a call may happen in.
CallYears == { 2025, 2026 }

\* The date_formats lists, each format a sequence of directives and
\* punctuation (the blanks between them match any white space).
anthropic_red_date_formats ==
    << << "%B", "%d", ",", "%Y" >>, << "%b", "%d", ",", "%Y" >>,
       << "%B", "%Y" >>, << "%b", "%Y" >> >>

xainews_date_formats ==
    << << "%B", "%d", ",", "%Y" >>, << "%b", "%d", ",", "%Y" >>,
       << "%B", "%d", "%Y" >>, << "%b", "%d", "%Y" >>,
       << "%Y", "-", "%m", "-", "%d" >>, << "%m", "/", "%d", "/", "%Y" >> >>

thinkingmachines_date_formats ==
    << << "%b", "%d" >>, << "%B", "%d" >>,
       << "%b", "%d", ",", "%Y" >>, << "%B", "%d", ",", "%Y" >>,
       << "%Y", "-", "%m", "-", "%d" >>, << "%m", "/", "%d", "/", "%Y" >> >>

DateParsers == { "anthropic_red", "xainews", "thinkingmachines" }

DateFormats(p) ==
    CASE p = "anthropic_red" -> anthropic_red_date_formats
      [] p = "xainews"       -> xainews_date_formats
      [] OTHER               -> thinkingmachines_date_formats

\* Whether a directive of a format matches a token of the string.
DirMatches(dir, t) ==
    CASE dir = "%B" -> t.k \in { "B", "Bb" }
      [] dir = "%b" -> t.k \in { "b", "Bb" }
      [] dir = "%d" -> t.k = "n" /\ t.v \in 1..31
      [] dir = "%m" -> t.k = "n" /\ t.v \in 1..12
      [] dir = "%Y" -> t.k = "Y"
      [] OTHER      -> t.k = dir

\* strptime raises ValueError unless the whole string matches the format.
strptime_matches(text, fmt) ==
    /\ Len(text) = Len(fmt)
    /\ \A i \in DOMAIN fmt : DirMatches(fmt[i], text[i])

\* The value strptime reads for one of the directives dirs, else the default.
FieldOf(text, fmt, dirs, default) ==
    IF \E i \in DOMAIN fmt : fmt[i] \in dirs
    THEN text[CHOOSE i \in DOMAIN fmt : fmt[i] \in dirs].v
    ELSE default

\* Python's None, and a datetime: fmt is a ghost field, the index of the
\* format that parsed.
NoDatetime ==
    [ok |-> FALSE, y |-> 0, m |-> 0, d |-> 0, hh |-> 0, mi |-> 0, tz |-> "none", fmt |-> 0]

\* datetime.strptime(text, fmt), when it matches: a naive datetime at
\* midnight; a missing year is 1900, a missing day 1.
strptime(text, fmt) ==
    [ok |-> TRUE,
     y |-> FieldOf(text, fmt, { "%Y" }, 1900),
     m |-> FieldOf(text, fmt, { "%B", "%b", "%m" }, 1),
     d |-> FieldOf(text, fmt, { "%d" }, 1),
     hh |-> 0, mi |-> 0, tz |-> "naive", fmt |-> 0]

replace_tzinfo_naive(date) == date

\* date.replace(tzinfo=pytz.UTC)
replace_tzinfo(date) == [date EXCEPT !.tz = "UTC"]

\* date.replace(year=current_year)
replace_year(date, yr) == [date EXCEPT !.y = yr]

\* date_text.strip()
RECURSIVE strip(_)
strip(text) ==
    IF text # <<>> /\ text[1] = Blank THEN strip(Tail(text))
    ELSE IF text # <<>> /\ text[Len(text)] = Blank
    THEN strip(SubSeq(text, 1, Len(text) - 1))
    ELSE text

\* The for loop over date_formats, from format i on: the first format that
\* parses returns; fillYear: a format without %Y takes the year yr.
RECURSIVE TryFormats(_, _, _, _, _)
TryFormats(formats, text, i, fillYear, yr) ==
    IF i > Len(formats) THEN NoDatetime
    ELSE IF strptime_matches(text, formats[i])
    THEN LET date == strptime(text, formats[i])
             dated == IF fillYear /\ \A j \in DOMAIN formats[i] : formats[i][j] # "%Y"
                      THEN replace_year(date, yr) ELSE date
         IN  [replace_tzinfo(dated) EXCEPT !.fmt = i]
    ELSE TryFormats(formats, text, i + 1, fillYear, yr)

anthropic_red_parse_date(text) ==
    TryFormats(anthropic_red_date_formats, text, 1, FALSE, 0)

xainews_parse_date(text) ==
    TryFormats(xainews_date_formats, strip(text), 1, FALSE, 0)

\* thinkingmachines' parse_date on a date string.
thinkingmachines_parse_date_string(text, yr) ==
    IF text = <<>> THEN NoDatetime
    ELSE TryFormats(thinkingmachines_date_formats, strip(text), 1, TRUE, yr)

DateInit ==
    /\ pd_pc = "ready"
    /\ pd_parser \in DateParsers
    /\ pd_text \in DateStrings
    /\ pd_year = 0
    /\ pd_result = "none"

InitParseDate == IdleExcept("date") /\ DateInit

\* parse_date(date_text) is called and returns.
ParseDate ==
    /\ pd_pc = "ready"
    /\ \E yr \in CallYears :
        /\ pd_year' = yr
        /\ pd_result' =
            CASE pd_parser = "anthropic_red" -> anthropic_red_parse_date(pd_text)
              [] pd_parser = "xainews"       -> xainews_parse_date(pd_text)
              [] OTHER -> thinkingmachines_parse_date_string(pd_text, yr)
    /\ pd_pc' = "done"
    /\ UNCHANGED << pd_parser, pd_text >>
    /\ Frame("date")

SpecParseDate == InitParseDate /\ [][ParseDate]_vars

\* The string as the parser's loop sees it.
SeenText(p, text) == IF p = "anthropic_red" THEN text ELSE strip(text)

\* The formats of parser p that parse the string.
Hits(p, text) ==
    { i \in DOMAIN DateFormats(p) : strptime_matches(SeenText(p, text), DateFormats(p)[i]) }

\* C11: the parser returns None when no format of its list parses the
\* string, and otherwise the reading of the first format that does, as
\* that day (of the current year when the format has no year) at 00:00 UTC;
\* "November 12, 2025" gives 2025-11-12 00:00 UTC.
C11_FirstFormatWins ==
    pd_pc = "done" =>
        LET F == DateFormats(pd_parser)
            t == SeenText(pd_parser, pd_text)
            hits == Hits(pd_parser, pd_text)
            first == CHOOSE i \in hits : \A j \in hits : i <= j
        IN  /\ hits = {} => pd_result = NoDatetime
            /\ hits # {} =>
                /\ pd_result.ok
                /\ pd_result.fmt = first
                /\ pd_result.m = strptime(t, F[first]).m
                /\ pd_result.d = strptime(t, F[first]).d
                /\ pd_result.y = IF \E j \in DOMAIN F[first] : F[first][j] = "%Y"
                                 THEN strptime(t, F[first]).y ELSE pd_year
                /\ pd_result.hh = 0 /\ pd_result.mi = 0 /\ pd_result.tz = "UTC"
            /\ pd_text = November12 =>
                /\ pd_result.y = 2025 /\ pd_result.m = 11 /\ pd_result.d = 12
                /\ pd_result.hh = 0 /\ pd_result.mi = 0 /\ pd_result.tz = "UTC"

\* C11 witness: anthropic_red's parse_date has parsed "November 12, 2025"
\* with its first format.
C11_Witness ==
    /\ pd_pc = "done"
    /\ pd_parser = "anthropic_red"
    /\ pd_text = November12
    /\ pd_result.ok
    /\ pd_result.fmt = 1

\* ------------------------------------------- get_existing_links_from_feed

\* Most items in the channel of a feed file.
MaxItems == 3

\* The <link> of an item: "none" no link element, "" an empty one, " " one
\* of white space only, three links, and a link with white space around it.
ItemLinks == { "none", "", " ", "a", "b", "c", " a " }

\* link_elem.text.strip()
xml_strip(t) == CASE t = " " -> "" [] t = " a " -> "a" [] OTHER -> t

\* The file at the path: absent, not XML, an RSS 2.0 document (items under
\* channel) or an Atom document (entries, no channel).
FeedFiles ==
    { [kind |-> k, items |-> <<>>] : k \in { "absent", "garbage" } }
    \cup [kind : { "rss", "atom" }, items : SeqsUpTo(ItemLinks, MaxItems)]

existing_links_unstripped(items) ==
    { items[i] : i \in { j \in DOMAIN items : items[j] \notin { "none", "" } } }

\* The loop over root.findall("./channel/item").
existing_links_loop(items) ==
    LET F[i \in 0..Len(items)] ==
            IF i = 0 THEN {}
            ELSE IF items[i] # "none" /\ items[i] # ""
                 THEN F[i - 1] \cup { xml_strip(items[i]) }
                 ELSE F[i - 1]
    IN  F[Len(items)]

\* get_existing_links_from_feed: ET.parse raises on a file that is not
\* XML, and the except branch logs and falls through to the return.
get_existing_links_from_feed(file) ==
    CASE file.kind = "absent"  -> {}
      [] file.kind = "garbage" -> {}
      [] file.kind = "atom"    -> existing_links_loop(<<>>)
      [] OTHER                 -> existing_links_loop(file.items)

InitExistingLinks ==
    /\ IdleExcept("link")
    /\ gl_pc = "ready"
    /\ gl_file \in FeedFiles
    /\ gl_result = [raised |-> FALSE, links |-> {}]

GetExistingLinks ==
    /\ gl_pc = "ready"
    /\ gl_result' = [raised |-> FALSE, links |-> get_existing_links_from_feed(gl_file)]
    /\ gl_pc' = "done"
    /\ UNCHANGED gl_file
    /\ Frame("link")

SpecExistingLinks == InitExistingLinks /\ [][GetExistingLinks]_vars

\* C12: the call returns, without raising, the set of the (stripped) link
\* texts of the items in the channel of an RSS document, exactly the three
\* links of a document of three items with links a, b and c, and the empty
\* set when the file is absent or is not XML.
C12_ExistingLinks ==
    gl_pc = "done" =>
        /\ ~gl_result.raised
        /\ gl_file.kind \in { "absent", "garbage" } => gl_result.links = {}
        /\ gl_file.kind = "rss" =>
            /\ \A l \in { "a", "b", "c" } :
                l \in gl_result.links <=>
                    \E i \in DOMAIN gl_file.items :
                        \/ gl_file.items[i] = l
                        \/ l = "a" /\ gl_file.items[i] = " a "
            /\ gl_result.links \subseteq { "a", "b", "c", "" }
            /\ "" \in gl_result.links
                <=> \E i \in DOMAIN gl_file.items : gl_file.items[i] = " "
        /\ gl_file = [kind |-> "rss", items |-> << "a", "b", "c" >>]
            => gl_result.links = { "a", "b", "c" }

\* C12 witness: the call on an RSS document of three items with three
\* different links has returned three links.
C12_Witness ==
    /\ gl_pc = "done"
    /\ gl_file.kind = "rss"
    /\ Len(gl_file.items) = 3
    /\ Cardinality(gl_result.links) = 3

\* ------------------------------------------------- the "See more" loop

\* max_clicks = 20  # Safety limit
max_clicks == 20

\* What the page does in one pass of the loop body.  css: the three CSS
\* selectors find no displayed button ("none"), find one ("shown"), or find
\* an element whose is_displayed() raises, which leaves see_more_button set
\* ("stale"); xpath: the lookup by text raises or finds an element;
\* displayed: the last is_displayed() says yes, no, or raises; click:
\* execute_script returns or raises; loads: the click loads a new batch.
PageMoves ==
    [css : { "none", "shown", "stale" }, xpath : { "raise", "found" },
     displayed : { "yes", "no", "raise" }, click : { "ok", "raise" },
     loads : BOOLEAN]

\* One pass of the loop body: TRUE when the button was clicked, FALSE when
\* the body breaks out of the loop (no button, or the outer except branch).
see_more_clicked(mv) ==
    LET see_more_button == mv.css \in { "shown", "stale" } \/ mv.xpath = "found"
    IN  /\ see_more_button
        /\ mv.displayed = "yes"
        /\ mv.click = "ok"

loop_condition_none(n) == TRUE

\* while clicks < max_clicks
loop_condition(n) == n < max_clicks

InitClicks ==
    /\ IdleExcept("click")
    /\ ck_pc = "loop"
    /\ clicks = 0
    /\ ck_iterations = 0
    /\ ck_batches \in { 0, 1 }
    /\ ck_html = -1

\* The loop condition holds: one pass of the body.
LoopBody ==
    /\ ck_pc = "loop"
    /\ loop_condition(clicks)
    /\ ck_iterations' = ck_iterations + 1
    /\ \E mv \in PageMoves :
        IF see_more_clicked(mv)
        THEN /\ clicks' = clicks + 1
             /\ ck_batches' = IF mv.loads THEN ck_batches + 1 ELSE ck_batches
             /\ UNCHANGED ck_pc
        ELSE /\ ck_pc' = "capture"
             /\ UNCHANGED << clicks, ck_batches >>
    /\ UNCHANGED ck_html
    /\ Frame("click")

\* The loop condition fails: the loop ends.
LoopEnd ==
    /\ ck_pc = "loop"
    /\ ~loop_condition(clicks)
    /\ ck_pc' = "capture"
    /\ UNCHANGED << clicks, ck_iterations, ck_batches, ck_html >>
    /\ Frame("click")

\* html_content = driver.page_source
CapturePage ==
    /\ ck_pc = "capture"
    /\ ck_html' = ck_batches
    /\ ck_pc' = "done"
    /\ UNCHANGED << clicks, ck_iterations, ck_batches >>
    /\ Frame("click")

NextClicks == LoopBody \/ LoopEnd \/ CapturePage

SpecClicks == InitClicks /\ [][NextClicks]_vars

\* C13: the loop clicks at most 20 times and passes through its body at
\* most 20 times, whatever the page does; while it runs a step is always
\* possible; the page source is captured only after the loop and holds
\* everything the clicks loaded.
C13_ClickLoopBounded ==
    /\ clicks <= max_clicks
    /\ ck_iterations <= max_clicks
    /\ ck_pc = "loop" => (ENABLED LoopBody \/ ENABLED LoopEnd)
    /\ ck_pc \in { "loop", "capture" } => ck_html = -1
    /\ ck_pc = "done" => ck_html = ck_batches

\* C13 witness: the button stayed displayed; the loop has ended after 20
\* clicks and the page source is captured.
C13_Witness ==
    /\ ck_pc = "done"
    /\ clicks = max_clicks
    /\ ck_html = ck_batches

\* ------------------------------------------------- cursor: paging and cache
\* archive/cursor_blog.py keeps a JSON cache of the posts of earlier runs.
\* A run is main(full_reset): load_cache, then fetch_all_pages or one fetch
\* of the first page merged with the cache, then save_cache, then
\* generate_rss_feed and save_rss_feed.  Nothing in main catches an
\* exception, so a step that raises ends the run there.

\* Pages of the site: 1 is BLOG_URL, 2.. are its /blog/page/<n> addresses.
MaxPages == 2
\* Posts on one page.
MaxPosts == 2
\* Runs of main in one behaviour.
MaxRuns == 3
\* Requests of one run that the model follows.
MaxFetches == 3

\* The records parse_posts builds; date 0 is the empty string of a card
\* with no <time>, 1 an ISO date (title, description and category are
\* copied along and not looked at).
CursorPosts == [ url : { "a", "b" }, date : 0..1 ]

\* The branch main takes after load_cache, which gives no posts when the
\* cache file is absent.
run_mode_reset_only(full_reset, file) ==
    IF full_reset THEN "full" ELSE "incremental"
run_mode(full_reset, file) ==
    LET posts == IF file.exists THEN file.posts ELSE <<>>
    IN  IF full_reset \/ posts = <<>> THEN "full" ELSE "incremental"

\* The loop of merge_posts: the cached list, then each new post whose url
\* is not yet in existing_urls.
merge_append_new_only(new_posts, cached_posts) == new_posts
merge_append_all(new_posts, cached_posts) == cached_posts \o new_posts
merge_append(new_posts, cached_posts) ==
    LET F[i \in 0..Len(new_posts)] ==
            IF i = 0 THEN cached_posts
            ELSE IF \E j \in DOMAIN F[i - 1] : F[i - 1][j].url = new_posts[i].url
                 THEN F[i - 1]
                 ELSE Append(F[i - 1], new_posts[i])
    IN  F[Len(new_posts)]

\* merge_posts: the merged list, sorted by date, newest first.
merge_posts_unsorted(new_posts, cached_posts) ==
    merge_append(new_posts, cached_posts)
merge_posts(new_posts, cached_posts) ==
    SortDesc(merge_append(new_posts, cached_posts))

InitCursor ==
    /\ IdleExcept("cursor")
    /\ cu_pc = "start"
    /\ cu_cache \in { [exists |-> e, posts |-> <<>>] : e \in BOOLEAN }
    /\ cu_feed = [exists |-> FALSE, items |-> <<>>]
    /\ cu_full_reset = FALSE
    /\ cu_next = [p \in 1..MaxPages |-> 0]
    /\ cu_mode = "none"
    /\ cu_url = 0
    /\ cu_all_posts = <<>>
    /\ cu_new_posts = <<>>
    /\ cu_posts = <<>>
    /\ cu_fetches = <<>>
    /\ cu_runs = 0
    /\ cu_result = "none"

\* main is called, with or without the full-refresh switch, on a site
\* whose Next/Older links are next; it loads the cache and picks its branch.
CursorMain ==
    /\ cu_pc = "start"
    /\ cu_runs < MaxRuns
    /\ \E full_reset \in BOOLEAN,
          next \in [1..MaxPages -> {0} \cup 2..MaxPages] :
          /\ cu_full_reset' = full_reset
          /\ cu_next' = next
          /\ cu_mode' = run_mode(full_reset, cu_cache)
    /\ cu_url' = 1
    /\ cu_all_posts' = <<>>
    /\ cu_new_posts' = <<>>
    /\ cu_posts' = <<>>
    /\ cu_fetches' = <<>>
    /\ cu_result' = "none"
    /\ cu_pc' = "fetch"
    /\ UNCHANGED << cu_cache, cu_feed, cu_runs >>
    /\ Frame("cursor")

\* One fetch_page and parse_posts: a pass of the while loop of
\* fetch_all_pages, with the dedupe and sort that follow the loop when the
\* page has no Next/Older link, or the single fetch of an incremental run
\* with its merge_posts.  The page is read as it is at the time of the fetch.
CursorFetch ==
    /\ cu_pc = "fetch"
    /\ Len(cu_fetches) < MaxFetches
    /\ cu_fetches' = Append(cu_fetches, cu_url)
    /\ \/ /\ cu_pc' = "start"
          /\ cu_result' = "raised"
          /\ cu_runs' = cu_runs + 1
          /\ UNCHANGED << cu_url, cu_all_posts, cu_new_posts, cu_posts >>
       \/ \E posts \in SeqsUpTo(CursorPosts, MaxPosts) :
             /\ cu_mode = "full"
             /\ cu_all_posts' = cu_all_posts \o posts
             /\ cu_url' = cu_next[cu_url]
             /\ IF cu_url' # 0
                THEN /\ cu_pc' = "fetch"
                     /\ cu_posts' = cu_posts
                ELSE LET all == cu_all_posts'
                         unique_posts ==
                             SelectSeq([ i \in DOMAIN all |->
                                           [post |-> all[i],
                                            seen |-> \E j \in 1..(i - 1) :
                                                       all[j].url = all[i].url] ],
                                       LAMBDA x : ~x.seen)
                     IN  /\ cu_posts' = SortDesc([ i \in DOMAIN unique_posts |->
                                                     unique_posts[i].post ])
                         /\ cu_pc' = "save_cache"
             /\ UNCHANGED << cu_new_posts, cu_result, cu_runs >>
       \/ \E posts \in SeqsUpTo(CursorPosts, MaxPosts) :
             /\ cu_mode = "incremental"
             /\ cu_new_posts' = posts
             /\ cu_posts' = merge_posts(posts, cu_cache.posts)
             /\ cu_pc' = "save_cache"
             /\ UNCHANGED << cu_url, cu_all_posts, cu_result, cu_runs >>
    /\ UNCHANGED << cu_cache, cu_feed, cu_full_reset, cu_next, cu_mode >>
    /\ Frame("cursor")

\* save_cache(posts): the cache file is rewritten with the posts of this
\* run, or the write raises before it changes the file.
CursorSaveCache ==
    /\ cu_pc = "save_cache"
    /\ \/ /\ cu_cache' = [exists |-> TRUE, posts |-> cu_posts]
          /\ cu_pc' = "save_feed"
          /\ UNCHANGED << cu_result, cu_runs >>
       \/ /\ cu_pc' = "start"
          /\ cu_result' = "raised"
          /\ cu_runs' = cu_runs + 1
          /\ UNCHANGED cu_cache
    /\ UNCHANGED << cu_feed, cu_full_reset, cu_next, cu_mode, cu_url,
                    cu_all_posts, cu_new_posts, cu_posts, cu_fetches >>
    /\ Frame("cursor")

\* generate_rss_feed(posts) and save_rss_feed: one entry is added per post
\* and the feed file is written, or a step raises before the file changes.
CursorSaveFeed ==
    /\ cu_pc = "save_feed"
    /\ \/ /\ cu_feed' = [exists |-> TRUE, items |-> RenderEntries(cu_posts)]
          /\ cu_result' = "True"
       \/ /\ cu_result' = "raised"
          /\ UNCHANGED cu_feed
    /\ cu_pc' = "start"
    /\ cu_runs' = cu_runs + 1
    /\ UNCHANGED << cu_cache, cu_full_reset, cu_next, cu_mode, cu_url,
                    cu_all_posts, cu_new_posts, cu_posts, cu_fetches >>
    /\ Frame("cursor")

NextCursor ==
    \/ CursorMain
    \/ CursorFetch
    \/ CursorSaveCache
    \/ CursorSaveFeed

SpecCursor == InitCursor /\ [][NextCursor]_vars

\* C14: a run fetches all the pages exactly when the full-refresh switch is
\* set or the loaded cache holds no posts; every other run fetches the
\* first page only, once, and the list it caches and renders is
\* merge_posts of that page's posts and the cached posts.
C14_FullOrIncremental ==
    /\ cu_pc \in { "fetch", "save_cache" } =>
          (cu_mode = "full" <=>
              (cu_full_reset \/ ~cu_cache.exists \/ cu_cache.posts = <<>>))
    /\ (cu_pc = "save_cache" /\ cu_mode = "incremental") =>
          /\ cu_fetches = <<1>>
          /\ cu_posts = merge_posts(cu_new_posts, cu_cache.posts)
    /\ (cu_pc = "save_cache" /\ cu_mode = "full") =>
          /\ cu_fetches[1] = 1
          /\ \A i \in 1..(Len(cu_fetches) - 1) :
                cu_fetches[i + 1] = cu_next[cu_fetches[i]]
          /\ cu_next[cu_fetches[Len(cu_fetches)]] = 0
    /\ cu_pc = "save_feed" => cu_cache = [exists |-> TRUE, posts |-> cu_posts]
    /\ (cu_pc = "start" /\ cu_result = "True") =>
          /\ cu_cache.posts = cu_posts
          /\ cu_feed.items = RenderEntries(cu_posts)

\* An incremental run has returned with a list that holds a post of the
\* page and a post that only the cache had.
C14_Witness ==
    /\ cu_pc = "start"
    /\ cu_result = "True"
    /\ cu_mode = "incremental"
    /\ ~cu_full_reset
    /\ \E i \in DOMAIN cu_posts :
          \A j \in DOMAIN cu_new_posts : cu_new_posts[j].url # cu_posts[i].url
    /\ \E j \in DOMAIN cu_new_posts :
          \A i \in DOMAIN cu_posts :
             cu_posts[i].url = cu_new_posts[j].url => cu_posts[i] = cu_new_posts[j]

\* ------------------------------------------------------- empty extraction

\* C15: a run whose page gave the extractor no item at all has returned
\* False to its caller and has written no feed file.
C15_EmptyExtractionFails ==
    (pc = "done" /\ page = <<>> /\ fault = "none") =>
        /\ result = "False"
        /\ run = 1 => ~feedFile.exists

\* ------------------------------------------- barrons: excluded sections
\* parse_articles of barrons.py reads the mod parameter of each anchor's
\* href and skips the anchor when is_excluded_section says so.  A mod value
\* is written as the sequence of its pieces, "_" being one of them, so that
\* "hp_FEEDS_2_MEDIA" is << "hp", "_", "FEEDS", "_", "2", "_", "MEDIA" >> and
\* pieces with no "_" between them make one longer token ("MEDIA2").

\* Pieces in one mod value.
MaxModLen == 7

EXCLUDED_SECTIONS ==
    { <<"COMMENTARY">>, <<"MEDIA">>, <<"MAGAZINE">>,
      <<"RETIREMENTANDWELLBEING">>, <<"VIDEO">> }

\* str.split("_"): the tokens between the underscores, "" included.
split_underscore(s) ==
    LET F[i \in 0..Len(s)] ==
            IF i = 0 THEN << <<>> >>
            ELSE IF s[i] = "_" THEN Append(F[i - 1], <<>>)
                 ELSE [F[i - 1] EXCEPT ![Len(F[i - 1])] = Append(@, s[i])]
    IN  F[Len(s)]

\* get_section_from_mod; None is written <<>> like the empty string, both
\* being false to is_excluded_section.
get_section_from_mod_first_token(mod_param) ==
    IF mod_param = <<>> THEN <<>>
    ELSE split_underscore(mod_param)[1]
get_section_from_mod(mod_param) ==
    IF mod_param = <<>> THEN <<>>
    ELSE LET \* mod_param.replace("hp_", ""): every "hp_" goes, left to right
             R[i \in 1..(Len(mod_param) + 2)] ==
                 IF i > Len(mod_param) THEN <<>>
                 ELSE IF /\ mod_param[i] = "hp"
                         /\ i < Len(mod_param)
                         /\ mod_param[i + 1] = "_"
                      THEN R[i + 2]
                      ELSE <<mod_param[i]>> \o R[i + 1]
             section == R[1]
             parts == split_underscore(section)
         IN  IF /\ Len(section) >= 2
                /\ section[1] = "FEEDS"
                /\ section[2] = "_"
                /\ Len(parts) >= 3
             THEN parts[3]
             ELSE parts[1]

is_excluded_section(mod_param) ==
    LET section == get_section_from_mod(mod_param)
    IN  section # <<>> /\ section \in EXCLUDED_SECTIONS

\* parse_articles has reached an anchor whose href carries the mod value
\* call_arg, <<>> when the href has no mod parameter.
InitSection ==
    /\ IdleExcept("call")
    /\ call_pc = "barrons_anchor"
    /\ call_arg \in SeqsUpTo({ "hp", "_", "FEEDS", "2", "MEDIA", "STOCKPICKS" },
                             MaxModLen)
    /\ call_ret = "none"

\* The section check of the loop body: continue, or go on to build the
\* article.
SkipExcluded ==
    /\ call_pc = "barrons_anchor"
    /\ call_ret' = IF is_excluded_section(call_arg) THEN "skipped" ELSE "kept"
    /\ call_pc' = "barrons_checked"
    /\ UNCHANGED call_arg
    /\ Frame("call")

SpecSection == InitSection /\ [][SkipExcluded]_vars

\* C16: an anchor that parse_articles goes on to build an article from has
\* no mod value whose section is excluded, the section of "hp_FEEDS_<n>_X.."
\* with a number n being X and that of any other "hp_X.." being X; an
\* anchor with no mod parameter is kept.
C16_ExcludedSections ==
    call_pc = "barrons_checked" =>
        LET toks == split_underscore(call_arg)
            feeds == /\ Len(toks) >= 4
                     /\ toks[2] = <<"FEEDS">>
                     /\ toks[3] # <<>>
                     /\ \A i \in DOMAIN toks[3] : toks[3][i] = "2"
            section == IF feeds THEN toks[4] ELSE toks[2]
        IN  /\ (toks[1] = <<"hp">> /\ Len(toks) >= 2 /\ call_ret = "kept") =>
                section \notin EXCLUDED_SECTIONS
            /\ call_arg = <<>> => call_ret = "kept"

\* The anchor of hp_FEEDS_2_MEDIA has been skipped.
C16_Witness ==
    /\ call_pc = "barrons_checked"
    /\ call_arg = << "hp", "_", "FEEDS", "_", "2", "_", "MEDIA" >>
    /\ call_ret = "skipped"

\* ------------------------------------------------ cursor: the cache grows

MaxMerge == 3

\* merge_posts is called with any two lists of posts, a cached list with
\* the same url twice included.
InitMerge ==
    /\ IdleExcept("cursor")
    /\ cu_pc = "merge"
    /\ cu_new_posts \in SeqsUpTo(CursorPosts, MaxMerge)
    /\ \E cached_posts \in SeqsUpTo(CursorPosts, MaxMerge) :
          cu_cache = [exists |-> TRUE, posts |-> cached_posts]
    /\ cu_feed = [exists |-> FALSE, items |-> <<>>]
    /\ cu_full_reset = FALSE
    /\ cu_next = <<>>
    /\ cu_mode = "incremental"
    /\ cu_url = 0
    /\ cu_all_posts = <<>>
    /\ cu_posts = <<>>
    /\ cu_fetches = <<>>
    /\ cu_runs = 0
    /\ cu_result = "none"

MergePosts ==
    /\ cu_pc = "merge"
    /\ cu_posts' = merge_posts(cu_new_posts, cu_cache.posts)
    /\ cu_pc' = "merged"
    /\ UNCHANGED << cu_cache, cu_feed, cu_full_reset, cu_next, cu_mode, cu_url,
                    cu_all_posts, cu_new_posts, cu_fetches, cu_runs, cu_result >>
    /\ Frame("cursor")

\* The incremental run saves the merged list as the cache, and the next
\* run, finding the first page as it was, merges the same new_posts again.
MergeAgain ==
    /\ cu_pc = "merged"
    /\ cu_cache' = [exists |-> TRUE, posts |-> cu_posts]
    /\ cu_posts' = merge_posts(cu_new_posts, cu_posts)
    /\ cu_pc' = "merged_again"
    /\ UNCHANGED << cu_feed, cu_full_reset, cu_next, cu_mode, cu_url,
                    cu_all_posts, cu_new_posts, cu_fetches, cu_runs, cu_result >>
    /\ Frame("cursor")

SpecMerge == InitMerge /\ [][MergePosts \/ MergeAgain]_vars

\* C18: the list merge_posts returns is sorted by date, newest first, and
\* holds the cached posts, each new post whose url is neither in the cache
\* nor earlier in new_posts, and nothing else; so of a url in both lists
\* it holds the cached record.
C18_MergePosts ==
    cu_pc = "merged" =>
        LET cached == cu_cache.posts
            added == { j \in DOMAIN cu_new_posts :
                         /\ \A i \in DOMAIN cached :
                               cached[i].url # cu_new_posts[j].url
                         /\ \A k \in 1..(j - 1) :
                               cu_new_posts[k].url # cu_new_posts[j].url }
        IN  /\ \A i, j \in DOMAIN cu_posts :
                  i < j => cu_posts[i].date >= cu_posts[j].date
            /\ \A p \in CursorPosts :
                  Cardinality({ i \in DOMAIN cu_posts : cu_posts[i] = p })
                    = Cardinality({ i \in DOMAIN cached : cached[i] = p })
                      + Cardinality({ j \in added : cu_new_posts[j] = p })

\* A merge of a page that shows a cached url with another date, a url new
\* to the cache twice, and posts that come back in another order than they
\* went in.
C18_Witness ==
    /\ cu_pc = "merged"
    /\ \E i \in DOMAIN cu_cache.posts, j \in DOMAIN cu_new_posts :
          /\ cu_cache.posts[i].url = cu_new_posts[j].url
          /\ cu_cache.posts[i].date # cu_new_posts[j].date
    /\ \E j, k \in DOMAIN cu_new_posts :
          /\ j < k
          /\ cu_new_posts[j].url = cu_new_posts[k].url
          /\ \A i \in DOMAIN cu_cache.posts :
                cu_cache.posts[i].url # cu_new_posts[j].url
    /\ cu_posts # merge_append(cu_new_posts, cu_cache.posts)

\* -------------------------------------------- cursor: fetch_all_pages

\* C19: fetch_all_pages requests no page a second time.
C19_EachPageOnce ==
    cu_mode = "full" =>
        \A i, j \in DOMAIN cu_fetches : i # j => cu_fetches[i] # cu_fetches[j]

\* -------------------------------------- Claude Code changelog: versions
\* parse_changelog_markdown of archive/anthropic_changelog_claude_code.py
\* reads CHANGELOG.md line by line.  A line is a version header
\* ("## 1.0.71", written by a number that stands for its version), a bullet
\* ("- text"), or any other line.

\* Lines in one changelog.
MaxLines == 6
\* The largest max_versions a call is given.
MaxVersions == 3

ChangelogLines ==
    { [kind |-> "header", version |-> v] : v \in 1..3 }
      \cup { [kind |-> "bullet", version |-> 0],
             [kind |-> "other", version |-> 0] }

\* The text of the version headers 1, 2 and 3, character by character:
\* "1.1.10", "1.11.0" and "1.2.0".
VersionText(v) ==
    CASE v = 1 -> << "1", ".", "1", ".", "1", "0" >>
      [] v = 2 -> << "1", ".", "1", "1", ".", "0" >>
      [] OTHER -> << "1", ".", "2", ".", "0" >>

\* current_version.replace(".", ""), the fragment of the item's link.
version_anchor(current_version) ==
    SelectSeq(current_version, LAMBDA ch : ch # ".")

\* The items parse_changelog_markdown returns, each with the version of its
\* title, the anchor of its link and the number of <li> of its
\* description; current_version 0 is None.
parse_changelog_markdown(lines, max_versions) ==
    LET F[i \in 0..Len(lines)] ==
            IF i = 0
            THEN [items |-> <<>>, current_version |-> 0, current_changes |-> 0,
                  broke |-> FALSE]
            ELSE LET st == F[i - 1]
                     line == lines[i]
                     saved == Append(st.items,
                                     [version |-> st.current_version,
                                      link |-> version_anchor(
                                                 VersionText(st.current_version)),
                                      changes |-> st.current_changes])
                 IN  IF st.broke THEN st
                     ELSE IF line.kind = "header"
                     THEN IF st.current_version # 0 /\ st.current_changes > 0
                          THEN IF Len(saved) >= max_versions
                               THEN [st EXCEPT !.items = saved, !.broke = TRUE]
                               ELSE [st EXCEPT !.items = saved,
                                               !.current_version = line.version,
                                               !.current_changes = 0]
                          ELSE [st EXCEPT !.current_version = line.version,
                                          !.current_changes = 0]
                     ELSE IF st.current_version # 0 /\ line.kind = "bullet"
                     THEN [st EXCEPT !.current_changes = @ + 1]
                     ELSE st
        end == F[Len(lines)]
    IN  IF /\ end.current_version # 0
           /\ end.current_changes > 0
           /\ Len(end.items) < max_versions
        THEN Append(end.items, [version |-> end.current_version,
                                link |-> version_anchor(
                                           VersionText(end.current_version)),
                                changes |-> end.current_changes])
        ELSE end.items

InitChangelog ==
    /\ IdleExcept("call")
    /\ call_pc = "changelog"
    /\ \E lines \in SeqsUpTo(ChangelogLines, MaxLines),
          max_versions \in 0..MaxVersions :
          call_arg = [lines |-> lines, max_versions |-> max_versions]
    /\ call_ret = "none"

ParseChangelog ==
    /\ call_pc = "changelog"
    /\ call_ret' = parse_changelog_markdown(call_arg.lines, call_arg.max_versions)
    /\ call_pc' = "changelog_parsed"
    /\ UNCHANGED call_arg
    /\ Frame("call")

SpecChangelog == InitChangelog /\ [][ParseChangelog]_vars

\* C20: parse_changelog_markdown returns at most max_versions items, and
\* they are the first max_versions of the versions whose header is followed
\* by a bullet, one item each, in the order of the document.
C20_AtMostMaxVersions ==
    call_pc = "changelog_parsed" =>
        LET lines == call_arg.lines
            headers == { i \in DOMAIN lines : lines[i].kind = "header" }
            \* the headers with a bullet before the next header
            listed == { i \in headers :
                          \E j \in (i + 1)..Len(lines) :
                             /\ lines[j].kind = "bullet"
                             /\ \A k \in (i + 1)..j : k \notin headers }
            nth(n) == CHOOSE i \in listed :
                         Cardinality({ k \in listed : k < i }) = n - 1
        IN  /\ Len(call_ret) <= call_arg.max_versions
            /\ Len(call_ret) <= Cardinality(listed)
            /\ Len(call_ret) >= IF Cardinality(listed) < call_arg.max_versions
                                THEN Cardinality(listed)
                                ELSE call_arg.max_versions
            /\ \A n \in DOMAIN call_ret :
                  call_ret[n].version = lines[nth(n)].version

\* ------------------------------------------- anthropic_red: article dates
\* parse_red_html of archive/anthropic_red_blog.py walks the children of
\* the table of contents: a date divider sets current_date, an a.note
\* anchor gives an article, whose date comes from the article's own page
\* (fetch_article_date), else from current_date, else from
\* stable_fallback_date.

\* Children of the table of contents.
MaxToc == 4

\* Date texts of dividers and article pages: "November 12, 2025",
\* "Nov 13, 2025" and "12", which no format matches.
RedTexts ==
    { November12,
      << Tok("b", 11), Tok("n", 13), Tok(",", 0), Tok("Y", 2025) >>,
      << Tok("n", 12) >> }

\* fetch_article_date, given what the request for the article page does:
\* it fails, or gives a page whose first <p> of d-article has the text
\* response.text (<<>> when there is no such element).  None is NoDatetime.
fetch_article_date_none(response) == NoDatetime
fetch_article_date(response) ==
    IF response.ok /\ response.text # <<>>
    THEN anthropic_red_parse_date(response.text)
    ELSE NoDatetime

\* The articles parse_red_html returns in a process whose hash seed is sd.
\* A fallback date is written as a datetime of 2023 whose d counts the
\* days from January 1.
parse_red_html(toc, sd) ==
    LET F[i \in 0..Len(toc)] ==
            IF i = 0
            THEN [articles |-> <<>>, seen_links |-> {}, current_date |-> NoDatetime]
            ELSE LET st == F[i - 1]
                     elem == toc[i]
                     link == IF StartsWithSlash(elem.href)
                             THEN Link("https://red.anthropic.com", "", elem.href)
                             ELSE Link("https://red.anthropic.com", "/", elem.href)
                     fetched == fetch_article_date(elem.page)
                     article_date ==
                         IF fetched.ok THEN fetched
                         ELSE IF st.current_date.ok THEN st.current_date
                         ELSE [NoDatetime EXCEPT
                                 !.ok = TRUE, !.y = 2023, !.m = 1, !.tz = "UTC",
                                 !.d = 1 + stable_fallback_date(sd, link)]
                 IN  IF elem.kind = "date"
                     THEN [st EXCEPT !.current_date =
                                        anthropic_red_parse_date(elem.text)]
                     ELSE IF elem.href = "" \/ link \in st.seen_links
                     THEN st
                     ELSE IF ~elem.h3
                     THEN [st EXCEPT !.seen_links = @ \cup { link }]
                     ELSE [st EXCEPT !.seen_links = @ \cup { link },
                                     !.articles = Append(@, [link |-> link,
                                                             date |-> article_date])]
    IN  F[Len(toc)].articles

\* parse_red_html is given a table of contents of date dividers and a.note
\* anchors, each anchor with what its article page will answer.
InitRed ==
    /\ IdleExcept("call")
    /\ call_pc = "red"
    /\ \E toc \in SeqsUpTo(
              { [kind |-> "date", text |-> t, href |-> "", h3 |-> FALSE,
                 page |-> [ok |-> FALSE, text |-> <<>>]] : t \in RedTexts }
              \cup
              { [kind |-> "note", text |-> <<>>, href |-> h, h3 |-> t,
                 page |-> pg] :
                  h \in { "/p1", "/p2", "p3" }, t \in BOOLEAN,
                  pg \in { [ok |-> FALSE, text |-> <<>>], [ok |-> TRUE, text |-> <<>>] }
                         \cup { [ok |-> TRUE, text |-> x] :
                                   x \in RedTexts \ { November12 } } }
              \cup
              { [kind |-> "note", text |-> <<>>, href |-> "", h3 |-> TRUE,
                 page |-> [ok |-> FALSE, text |-> <<>>]] },
              MaxToc),
          sd \in 0..MaxSeed :
          call_arg = [toc |-> toc, seed |-> sd]
    /\ call_ret = "none"

ParseRed ==
    /\ call_pc = "red"
    /\ call_ret' = parse_red_html(call_arg.toc, call_arg.seed)
    /\ call_pc' = "red_parsed"
    /\ UNCHANGED call_arg
    /\ Frame("call")

SpecRed == InitRed /\ [][ParseRed]_vars

\* C21: the date of each article is the date parsed from its own page when
\* the page was fetched and its date text parses; else the date parsed
\* from the nearest divider before its anchor; else, when there is no such
\* divider or its text does not parse, the fallback date of the link.
C21_DatePriority ==
    call_pc = "red_parsed" =>
        \A k \in DOMAIN call_ret :
            LET toc == call_arg.toc
                i == CHOOSE n \in DOMAIN toc :
                        /\ toc[n].kind = "note"
                        /\ toc[n].href = call_ret[k].link.path
                        /\ \A m \in 1..(n - 1) :
                              toc[m].kind = "note" => toc[m].href # toc[n].href
                own == IF toc[i].page.ok /\ toc[i].page.text # <<>>
                       THEN anthropic_red_parse_date(toc[i].page.text)
                       ELSE NoDatetime
                dividers == { j \in 1..(i - 1) : toc[j].kind = "date" }
                nearest == CHOOSE j \in dividers : \A m \in dividers : m <= j
                divider == IF dividers = {} THEN NoDatetime
                           ELSE anthropic_red_parse_date(toc[nearest].text)
                date == call_ret[k].date
            IN  IF own.ok THEN date = own
                ELSE IF divider.ok THEN date = divider
                ELSE /\ date.y = 2023
                     /\ date.d = 1 + stable_fallback_date(call_arg.seed,
                                                          call_ret[k].link)

\* Three articles: one dated by the fallback, one dated by the divider before it because its page
\* could not be fetched, and one dated by its own page, which says another
\* day than the divider before it.
C21_Witness ==
    /\ call_pc = "red_parsed"
    /\ Len(call_ret) = 3
    /\ LET toc == call_arg.toc
           OwnOk(i) == /\ toc[i].kind = "note"
                       /\ toc[i].page.ok
                       /\ toc[i].page.text # <<>>
                       /\ anthropic_red_parse_date(toc[i].page.text).ok
           DividerOk(i) == /\ toc[i].kind = "date"
                           /\ anthropic_red_parse_date(toc[i].text).ok
       IN  /\ \E k \in DOMAIN call_ret : call_ret[k].date.y = 2023
           /\ \E k \in DOMAIN call_ret, i \in DOMAIN toc :
                 /\ toc[i].kind = "note"
                 /\ toc[i].href = call_ret[k].link.path
                 /\ ~toc[i].page.ok
                 /\ call_ret[k].date.y = 2025
           /\ \E k \in DOMAIN call_ret, i \in DOMAIN toc :
                 /\ OwnOk(i)
                 /\ toc[i].href = call_ret[k].link.path
                 /\ call_ret[k].date = anthropic_red_parse_date(toc[i].page.text)
                 /\ \E j \in 1..(i - 1) :
                       /\ DividerOk(j)
                       /\ anthropic_red_parse_date(toc[j].text) # call_ret[k].date

\* ---------------------------------------------- cursor: one post per url

\* C22: with the cache absent or empty before the first run, the cached
\* list never holds two posts with the same url, whatever full and
\* incremental runs have been made.
C22_CacheUrlsDistinct ==
    \A i, j \in DOMAIN cu_cache.posts :
        i # j => cu_cache.posts[i].url # cu_cache.posts[j].url

\* An incremental run has returned whose first page showed one url twice,
\* in two posts that differ, and the cache holds two posts.
C22_Witness ==
    /\ cu_pc = "start"
    /\ cu_result = "True"
    /\ cu_mode = "incremental"
    /\ Len(cu_cache.posts) = 2
    /\ Len(cu_new_posts) = 2
    /\ cu_new_posts[1].url = cu_new_posts[2].url
    /\ cu_new_posts[1] # cu_new_posts[2]

\* ------------------------------------------ cursor: cache and feed agree

\* C23: between runs, whether the last run returned or raised, the urls of
\* the cache file are the links of the items of the feed file, in the same
\* order (they agree before the first run, when neither lists a post).
C23_CacheMatchesFeed ==
    cu_pc = "start" =>
        [ i \in DOMAIN cu_cache.posts |-> cu_cache.posts[i].url ]
          = [ i \in DOMAIN cu_feed.items |-> cu_feed.items[i].url ]

\* ------------------------------------------- cursor: merging a page twice

\* C24: merging the same new_posts into the list a merge returned gives
\* that list again: the cache an incremental run saved is what the next
\* run computes when the first page has not changed.
C24_MergeIdempotent ==
    cu_pc = "merged_again" => cu_posts = cu_cache.posts

\* A page of two posts was merged twice into a cache without a repeated
\* url; the cache held both urls with other dates, and kept its records.
C24_Witness ==
    /\ cu_pc = "merged_again"
    /\ \A i, j \in DOMAIN cu_posts : i # j => cu_posts[i].url # cu_posts[j].url
    /\ Len(cu_posts) = 2
    /\ Len(cu_new_posts) = 2
    /\ \A j \in DOMAIN cu_new_posts : \A i \in DOMAIN cu_posts :
          cu_new_posts[j] # cu_posts[i]

\* ------------------------------------------- one link in several anchors

\* C25: when the extractor of anthropic_news, barrons or noordhollands has
\* gone through the page, every anchor that gives an Article when it is
\* the only anchor of its link has an Article for its link in the list.
C25_LaterAnchorCounts ==
    (/\ gen \in { "anthropic_news", "barrons", "noordhollands" }
     /\ pc \in { "generate", "done" }
     /\ fault = "none") =>
        \A i \in DOMAIN page :
            LET alone == ExtractItem(gen, page[i], {}, seed, clock, TRUE)
            IN  alone.kind = "emit" =>
                    \E k \in DOMAIN articles : articles[k].link = alone.art.link

\* ------------------------------------- Claude Code changelog: item links

\* C26: two items of the changelog feed with different versions have
\* different links (the link is also the item's id).
C26_DistinctAnchors ==
    call_pc = "changelog_parsed" =>
        \A n, m \in DOMAIN call_ret :
            call_ret[n].version # call_ret[m].version =>
                call_ret[n].link # call_ret[m].link

\* ------------------------------------------------- a run that returns False

\* C27: when main has returned False in the first run, the feed file is as
\* it was before the run: there is none.
C27_FalseLeavesFeed ==
    (pc = "done" /\ run = 1 /\ result = "False") => ~feedFile.exists

====
